---- MODULE Spec2Model ----
(***************************************************************************)
(* Model of isg.py: the paginated image search, the bulk download, the     *)
(* single and batch entry points and the clearing of the download folder.  *)
(*                                                                         *)
(* Text is modelled as a sequence of one-character strings, a path under   *)
(* DOWNLOAD_FOLDER as the sequence of its segments (the root is << >>).    *)
(***************************************************************************)
EXTENDS Integers, Sequences, FiniteSets, TLC

(* ------------------------------ bounds --------------------------------- *)
MaxNum == 2
MaxEntries == 4
MaxRows == 2
MaxOps == 2

(* ------------------------------- text ---------------------------------- *)
Alnum == {"a", "b", "c", "d", "e", "f", "g", "h", "i", "j", "k", "l", "m", "n", "o",
          "p", "q", "r", "s", "t", "u", "v", "w", "x", "y", "z",
          "0", "1", "2", "3", "4", "5", "6", "7", "8", "9"}

IsAlnumChar(c) == c \in Alnum

\* str.isalnum(): every character alphanumeric and at least one character
IsAlnum(s) == Len(s) > 0 /\ \A i \in 1..Len(s) : IsAlnumChar(s[i])

Take(s, n) == IF n <= 0 THEN << >> ELSE SubSeq(s, 1, IF n < Len(s) THEN n ELSE Len(s))

Drop(s, n) == IF n >= Len(s) THEN << >> ELSE SubSeq(s, n + 1, Len(s))

\* position of the first c in s, 0 when there is none
RECURSIVE IndexOf(_, _, _)
IndexOf(s, c, from) ==
    IF from > Len(s) THEN 0
    ELSE IF s[from] = c THEN from
    ELSE IndexOf(s, c, from + 1)

\* str.split(c): the pieces between the occurrences of c
RECURSIVE Split(_, _)
Split(s, c) ==
    LET k == IndexOf(s, c, 1)
    IN  IF k = 0 THEN << s >>
        ELSE << Take(s, k - 1) >> \o Split(Drop(s, k), c)

IsSpace(c) == c = " "

\* str.strip()
RECURSIVE LStrip(_)
LStrip(s) == IF Len(s) > 0 /\ IsSpace(s[1]) THEN LStrip(Tail(s)) ELSE s

RECURSIVE RStrip(_)
RStrip(s) ==
    IF Len(s) > 0 /\ IsSpace(s[Len(s)]) THEN RStrip(SubSeq(s, 1, Len(s) - 1)) ELSE s

Strip(s) == RStrip(LStrip(s))

Digit(d) == CASE d = 0 -> "0" [] d = 1 -> "1" [] d = 2 -> "2" [] d = 3 -> "3"
              [] d = 4 -> "4" [] d = 5 -> "5" [] d = 6 -> "6" [] d = 7 -> "7"
              [] d = 8 -> "8" [] d = 9 -> "9"

\* str(n) of a natural number
RECURSIVE Str(_)
Str(n) == IF n < 10 THEN << Digit(n) >> ELSE Str(n \div 10) \o << Digit(n % 10) >>

sanitize_filename(name) ==
    [i \in 1..Len(name) |->
        IF IsAlnumChar(name[i]) \/ name[i] \in {" ", "_"} THEN name[i] ELSE "_"]

\* os.path.join(folder, name): an empty name leaves the folder itself
PathJoin(folder, name) == IF name = << >> THEN folder ELSE Append(folder, name)

(* ------------------------------ values --------------------------------- *)
\* a URL field that is missing (None) or empty: both are falsy at line 68
Absent == << >>

U1 == << "h", ".", "c", "/", "a", ".", "p", "n", "g" >>
U2 == << "h", ".", "c", "/", "b", ".", "g", "i", "f", "?", "v", "=", "1", ".", "2" >>
U3 == << "h", ".", "c", "/", "c" >>

\* one entry of "images_results"
Entries == { [original |-> Absent, image |-> U2],
             [original |-> U3, image |-> U1],
             [original |-> Absent, image |-> Absent] }

SeqsUpTo(S, n) == UNION { [1..k -> S] : k \in 0..n }

\* the non-empty pages the search API may answer with
Pages == SeqsUpTo(Entries, MaxEntries) \ { << >> }

\* Python numbers as the code sees them: a finite int or float (in tenths),
\* the float NaN, a string, None: the values a DataFrame cell or an argument holds
Num(v) == [t |-> "num", tenths |-> 10 * v, s |-> << >>]
NaN == [t |-> "nan", tenths |-> 0, s |-> << >>]
Text(s) == [t |-> "str", tenths |-> 0, s |-> s]
NoneValue == [t |-> "none", tenths |-> 0, s |-> << >>]

\* str(x) of a string or of the float NaN
PyStr(x) == IF x.t = "nan" THEN << "n", "a", "n" >> ELSE x.s

\* isinstance(x, (int, float))
IsIntOrFloat(x) == x.t \in {"num", "nan"}

\* x < 1 (every comparison with NaN is False)
LessThanOne(x) == x.t = "num" /\ x.tenths < 10

\* int(x) raises: ValueError for NaN, TypeError for None
IntRaises(x) == x.t # "num"

\* int(x) of a finite non-negative number truncates
IntOf(x) == x.tenths \div 10

Status(kind, q, n) == [kind |-> kind, query |-> q, n |-> n]

NoResult == [returned |-> FALSE, images |-> << >>, status |-> Status("", << >>, 0)]

Returned(images, status) == [returned |-> TRUE, images |-> images, status |-> status]

(* ------------------------------- state --------------------------------- *)
VARIABLES
    fsDirs,            \* directories under DOWNLOAD_FOLDER (the root is << >>)
    fsFiles,           \* files under DOWNLOAD_FOLDER
    pc,                \* where the running operation is: "idle" when none runs
    caller,            \* "single" or "batch": who called search_and_download_images
    ops,               \* number of public operations started
    query, num_images, save_folder,          \* arguments of the pipeline
    ijn, image_urls, downloaded_images, idx, \* its locals
    requests,          \* the "ijn" of every search request sent (line 57)
    pagesSeen,         \* the pages the search API answered with
    attempts,          \* the URL of every image request sent (line 85)
    log,               \* per attempt: "info" (line 94) or "error" (line 96)
    result,            \* what search_and_download_images returned last
    rows, rowIdx, statuses,                  \* locals of download_images_batch
    todo,              \* entries of the root glob not yet visited (line 116)
    ret                \* what the last public operation returned, or that it raised

fsVars == << fsDirs, fsFiles >>
pipeArgs == << query, num_images, save_folder >>
pipeLocals == << ijn, image_urls, downloaded_images, idx >>
pipeObs == << requests, pagesSeen, attempts, log >>
batchVars == << rows, rowIdx, statuses >>
vars == << fsDirs, fsFiles, pc, caller, ops, query, num_images, save_folder,
           ijn, image_urls, downloaded_images, idx, requests, pagesSeen,
           attempts, log, result, rows, rowIdx, statuses, todo, ret >>

NoReturn == [op |-> "", raised |-> FALSE, images |-> << >>, text |-> << >>]

Init ==
    /\ fsDirs = { << >> }
    /\ fsFiles = {}
    /\ pc = "idle"
    /\ caller = ""
    /\ ops = 0
    /\ query = << >>
    /\ num_images = 0
    /\ save_folder = << >>
    /\ ijn = 0
    /\ image_urls = << >>
    /\ downloaded_images = << >>
    /\ idx = 0
    /\ requests = << >>
    /\ pagesSeen = << >>
    /\ attempts = << >>
    /\ log = << >>
    /\ result = NoResult
    /\ rows = << >>
    /\ rowIdx = 0
    /\ statuses = << >>
    /\ todo = {}
    /\ ret = NoReturn

(* --------------------------- the filesystem ---------------------------- *)
Prefixes(path) == { SubSeq(path, 1, k) : k \in 0..Len(path) }

\* Path.mkdir(parents=True, exist_ok=True) raises when a file is in the way
MkdirBlocked(path) == Prefixes(path) \cap fsFiles # {}

MkdirDirs(path) == fsDirs \cup Prefixes(path)

(* ----------------------- search_and_download_images -------------------- *)
\* as line 68 without the fallback to 'image'
ExtractOriginalOnly(img) == img.original

\* line 68: img.get('original') or img.get('image')
ExtractUrl(img) == IF img.original # Absent THEN img.original ELSE img.image

\* lines 67-73: the URLs of one page, up to num
RECURSIVE CollectPage(_, _, _)
CollectPage(page, acc, num) ==
    IF page = << >> THEN acc
    ELSE LET url == ExtractUrl(Head(page))
             acc2 == IF url # Absent THEN Append(acc, url) ELSE acc
         IN  IF Len(acc2) >= num THEN acc2
             ELSE CollectPage(Tail(page), acc2, num)

\* line 75
NextIjn(i) == i + 1

\* line 79: image_urls[:num_images]
Truncate(urls, num) == Take(urls, num)

\* lines 87-89
FileExtension(url) ==
    LET raw == Split(url, ".")
        ext == Split(raw[Len(raw)], "?")[1]
    IN  IF Len(ext) > 4 \/ ~IsAlnum(ext) THEN << "j", "p", "g" >> ELSE ext

\* line 90: f"image_{idx + 1}.{file_extension}", idx counting from 0
FileName(i, ext) == << "i", "m", "a", "g", "e", "_" >> \o Str(i + 1) \o << "." >> \o ext

FilePath(folder, i, url) == PathJoin(folder, FileName(i, FileExtension(url)))

\* as lines 98-105 without the test of line 98
FinalResultUnchecked(downloaded, q) ==
    Returned(downloaded, Status("downloaded", q, Len(downloaded)))

\* lines 98-105
FinalResult(downloaded, q) ==
    IF downloaded = << >>
    THEN Returned(<< >>, Status("none", q, 0))
    ELSE Returned(downloaded, Status("downloaded", q, Len(downloaded)))

\* lines 107-110
ErrorResult(q) == Returned(<< >>, Status("error", q, 0))

\* line 144: f"file://{os.path.abspath(path)}"
AbsoluteUrl(path) == << << "f", "i", "l", "e", ":" >>, << "c", "w", "d" >> >> \o path

\* the caller gets the value back: lines 142-148 or line 198
BackToCaller(r) ==
    /\ result' = r
    /\ IF caller = "single"
       THEN /\ ret' = [op |-> "single", raised |-> FALSE,
                       images |-> [i \in 1..Len(r.images) |-> AbsoluteUrl(r.images[i])],
                       text |-> << r.status >>]
            /\ pc' = "idle"
            /\ UNCHANGED batchVars
       ELSE /\ statuses' = Append(statuses, r.status)
            /\ rowIdx' = rowIdx + 1
            /\ pc' = "batch_row"
            /\ UNCHANGED << ret, rows >>

\* no call of search_and_download_images is under way: its locals are gone
NoPipeline ==
    /\ caller' = ""
    /\ query' = << >>
    /\ num_images' = 0
    /\ save_folder' = << >>
    /\ ijn' = 0
    /\ image_urls' = << >>
    /\ downloaded_images' = << >>
    /\ idx' = 0
    /\ requests' = << >>
    /\ pagesSeen' = << >>
    /\ attempts' = << >>
    /\ log' = << >>
    /\ result' = NoResult

\* no call of download_images_batch is under way
NoBatch ==
    /\ rows' = << >>
    /\ rowIdx' = 0
    /\ statuses' = << >>

\* the call itself: lines 38-52, then the loop test of line 55
EnterPipeline(q, num, folder, who) ==
    /\ caller' = who
    /\ query' = q
    /\ num_images' = num
    /\ save_folder' = folder
    /\ ijn' = 0
    /\ image_urls' = << >>
    /\ downloaded_images' = << >>
    /\ idx' = 0
    /\ requests' = << >>
    /\ pagesSeen' = << >>
    /\ attempts' = << >>
    /\ log' = << >>
    /\ result' = NoResult
    /\ pc' = IF 0 < num THEN "search" ELSE "download"

\* as lines 57-58 with the failure swallowed: the loop is left and the
\* candidates collected so far are downloaded
SearchFailureSwallowed ==
    /\ pc = "search"
    /\ requests' = Append(requests, ijn)
    /\ image_urls' = Truncate(image_urls, num_images)
    /\ pc' = "download"
    /\ UNCHANGED << fsVars, caller, ops, pipeArgs, ijn, downloaded_images, idx,
                    pagesSeen, attempts, log, result, batchVars, todo, ret >>

\* lines 57-58: the request raises, or raise_for_status does
SearchRequestFails ==
    /\ pc = "search"
    /\ requests' = Append(requests, ijn)
    /\ BackToCaller(ErrorResult(query))
    /\ UNCHANGED << fsVars, caller, ops, pipeArgs, pipeLocals, pagesSeen, attempts,
                    log, todo >>

\* as lines 62-65 with the break missing: the next page is asked for
SearchEmptyPageContinues ==
    /\ pc = "search"
    /\ requests' = Append(requests, ijn)
    /\ pagesSeen' = Append(pagesSeen, << >>)
    /\ ijn' = ijn + 1
    /\ UNCHANGED << fsVars, pc, caller, ops, pipeArgs, image_urls, downloaded_images,
                    idx, attempts, log, result, batchVars, todo, ret >>

\* lines 62-65: no entries, the loop is left; then line 79
SearchEmptyPage ==
    /\ pc = "search"
    /\ requests' = Append(requests, ijn)
    /\ pagesSeen' = Append(pagesSeen, << >>)
    /\ image_urls' = Truncate(image_urls, num_images)
    /\ pc' = "download"
    /\ UNCHANGED << fsVars, caller, ops, pipeArgs, ijn, downloaded_images, idx,
                    attempts, log, result, batchVars, todo, ret >>

\* the entries in a sequence of pages
RECURSIVE EntryCount(_)
EntryCount(pages) ==
    IF pages = << >> THEN 0 ELSE Len(Head(pages)) + EntryCount(Tail(pages))

\* lines 57-76: a page with entries (the API holds MaxEntries results at most);
\* then the loop test and, past it, line 79
SearchPage(page) ==
    /\ pc = "search"
    /\ EntryCount(pagesSeen) + Len(page) <= MaxEntries
    /\ requests' = Append(requests, ijn)
    /\ pagesSeen' = Append(pagesSeen, page)
    /\ ijn' = NextIjn(ijn)
    /\ LET urls == CollectPage(page, image_urls, num_images)
       IN  IF Len(urls) < num_images
           THEN /\ image_urls' = urls
                /\ pc' = "search"
           ELSE /\ image_urls' = Truncate(urls, num_images)
                /\ pc' = "download"
    /\ UNCHANGED << fsVars, caller, ops, pipeArgs, downloaded_images, idx,
                    attempts, log, result, batchVars, todo, ret >>

\* as lines 85-86 without the try of line 83: the failure ends the call
DownloadFailureAborts ==
    /\ pc = "download"
    /\ idx < Len(image_urls)
    /\ attempts' = Append(attempts, image_urls[idx + 1])
    /\ log' = Append(log, "error")
    /\ idx' = idx + 1
    /\ BackToCaller(ErrorResult(query))
    /\ UNCHANGED << fsVars, caller, ops, pipeArgs, ijn, image_urls,
                    downloaded_images, requests, pagesSeen, todo >>

\* lines 85-86: the image request raises, or raise_for_status does; line 96
DownloadRequestFails ==
    /\ pc = "download"
    /\ idx < Len(image_urls)
    /\ attempts' = Append(attempts, image_urls[idx + 1])
    /\ log' = Append(log, "error")
    /\ idx' = idx + 1
    /\ UNCHANGED << fsVars, pc, caller, ops, pipeArgs, ijn, image_urls,
                    downloaded_images, requests, pagesSeen, result, batchVars,
                    todo, ret >>

\* lines 91-92: open raises (no file) or write does (the file is there); line 96
DownloadWriteFails(created) ==
    /\ pc = "download"
    /\ idx < Len(image_urls)
    /\ attempts' = Append(attempts, image_urls[idx + 1])
    /\ log' = Append(log, "error")
    /\ fsFiles' = IF created
                  THEN fsFiles \cup { FilePath(save_folder, idx, image_urls[idx + 1]) }
                  ELSE fsFiles
    /\ idx' = idx + 1
    /\ UNCHANGED << fsDirs, pc, caller, ops, pipeArgs, ijn, image_urls,
                    downloaded_images, requests, pagesSeen, result, batchVars,
                    todo, ret >>

\* lines 85-94
DownloadOk ==
    /\ pc = "download"
    /\ idx < Len(image_urls)
    /\ attempts' = Append(attempts, image_urls[idx + 1])
    /\ log' = Append(log, "info")
    /\ fsFiles' = fsFiles \cup { FilePath(save_folder, idx, image_urls[idx + 1]) }
    /\ downloaded_images' =
           Append(downloaded_images, FilePath(save_folder, idx, image_urls[idx + 1]))
    /\ idx' = idx + 1
    /\ UNCHANGED << fsDirs, pc, caller, ops, pipeArgs, ijn, image_urls,
                    requests, pagesSeen, result, batchVars, todo, ret >>

\* lines 98-105, after the last candidate
Finish ==
    /\ pc = "download"
    /\ idx = Len(image_urls)
    /\ BackToCaller(FinalResult(downloaded_images, query))
    /\ UNCHANGED << fsVars, caller, ops, pipeArgs, pipeLocals, pipeObs, todo >>

(* -------------------------- download_images_single --------------------- *)
Queries == { << "c", "+" >>, << >> }

\* lines 136-141, the folder is made and the count converts
SingleCall(q, n) ==
    /\ pc = "idle"
    /\ ~MkdirBlocked(PathJoin(<< >>, sanitize_filename(q)))
    /\ ~IntRaises(n)
    /\ ops' = ops + 1
    /\ fsDirs' = MkdirDirs(PathJoin(<< >>, sanitize_filename(q)))
    /\ EnterPipeline(q, IntOf(n), PathJoin(<< >>, sanitize_filename(q)), "single")
    /\ ret' = NoReturn
    /\ NoBatch
    /\ UNCHANGED << fsFiles, todo >>

\* line 138 raises (the filesystem refuses, or a file is in the way): nothing
\* catches it
SingleMkdirFails(q, n) ==
    /\ pc = "idle"
    /\ ops' = ops + 1
    /\ ret' = [op |-> "single", raised |-> TRUE, images |-> << >>, text |-> << >>]
    /\ NoPipeline
    /\ NoBatch
    /\ UNCHANGED << fsVars, pc, todo >>

\* line 141: int(num_images) raises after the folder is made: nothing catches it
SingleIntFails(q, n) ==
    /\ pc = "idle"
    /\ ~MkdirBlocked(PathJoin(<< >>, sanitize_filename(q)))
    /\ IntRaises(n)
    /\ ops' = ops + 1
    /\ fsDirs' = MkdirDirs(PathJoin(<< >>, sanitize_filename(q)))
    /\ ret' = [op |-> "single", raised |-> TRUE, images |-> << >>, text |-> << >>]
    /\ NoPipeline
    /\ NoBatch
    /\ UNCHANGED << fsFiles, pc, todo >>

SingleCounts == { Num(n) : n \in 1..MaxNum } \cup { NoneValue }

(* -------------------------- download_images_batch ---------------------- *)
\* line 164: col.lower()
Lower(col) == CASE col = "Keyword" -> "keyword"
                [] col = "NUMBERS" -> "numbers"
                [] OTHER -> col

\* line 201: "\n".join(statuses)
NewLine == Status("\n", << >>, 0)

RECURSIVE Join(_)
Join(lines) ==
    IF Len(lines) = 0 THEN << >>
    ELSE IF Len(lines) = 1 THEN << lines[1] >>
    ELSE << lines[1], NewLine >> \o Join(Tail(lines))

Message(kind) == << Status(kind, << >>, 0) >>

BatchReturn(text) == [op |-> "batch", raised |-> FALSE, images |-> << >>, text |-> text]

\* lines 176-178
RowKeyword(row) == Strip(PyStr(row.keyword))
RowCategory(row) == Strip(PyStr(row.category))

\* line 182
RowInvalid(row) ==
    \/ RowKeyword(row) = << >>
    \/ RowCategory(row) = << >>
    \/ ~IsIntOrFloat(row.numbers)
    \/ LessThanOne(row.numbers)

\* lines 188-193
RowFolder(row) ==
    PathJoin(PathJoin(<< >>, sanitize_filename(RowCategory(row))),
             sanitize_filename(RowKeyword(row)))

\* lines 153-156
BatchNoFile ==
    /\ pc = "idle"
    /\ ops' = ops + 1
    /\ ret' = BatchReturn(Message("no_csv"))
    /\ NoPipeline
    /\ NoBatch
    /\ UNCHANGED << fsVars, pc, todo >>

\* line 160 raises; lines 205-208
BatchReadFails ==
    /\ pc = "idle"
    /\ ops' = ops + 1
    /\ ret' = BatchReturn(Message("csv_error"))
    /\ NoPipeline
    /\ NoBatch
    /\ UNCHANGED << fsVars, pc, todo >>

\* lines 164-171
BatchMissingColumns(columns) ==
    /\ pc = "idle"
    /\ ~({"keyword", "numbers", "category"} \subseteq { Lower(c) : c \in columns })
    /\ ops' = ops + 1
    /\ ret' = BatchReturn(Message("missing_columns"))
    /\ NoPipeline
    /\ NoBatch
    /\ UNCHANGED << fsVars, pc, todo >>

\* lines 160-174: the table has the columns, the loop over its rows starts
BatchStart(columns, table) ==
    /\ pc = "idle"
    /\ {"keyword", "numbers", "category"} \subseteq { Lower(c) : c \in columns }
    /\ ops' = ops + 1
    /\ rows' = table
    /\ rowIdx' = 1
    /\ statuses' = << >>
    /\ pc' = "batch_row"
    /\ ret' = NoReturn
    /\ NoPipeline
    /\ UNCHANGED << fsVars, todo >>

\* lines 182-186
BatchRowSkipped ==
    /\ pc = "batch_row"
    /\ rowIdx <= Len(rows)
    /\ RowInvalid(rows[rowIdx])
    /\ statuses' = Append(statuses, Status("skipped", << >>, rowIdx))
    /\ rowIdx' = rowIdx + 1
    /\ UNCHANGED << fsVars, pc, caller, ops, pipeArgs, pipeLocals, pipeObs, result,
                    rows, todo, ret >>

\* line 194 raises (the filesystem refuses, or a file is in the way); lines 205-208
BatchRowMkdirFails ==
    /\ pc = "batch_row"
    /\ rowIdx <= Len(rows)
    /\ ~RowInvalid(rows[rowIdx])
    /\ ret' = BatchReturn(Message("csv_error"))
    /\ pc' = "idle"
    /\ UNCHANGED << fsVars, caller, ops, pipeArgs, pipeLocals, pipeObs, result,
                    batchVars, todo >>

\* lines 194-197: the folder is made, then int(numbers) raises; lines 205-208
BatchRowIntFails ==
    /\ pc = "batch_row"
    /\ rowIdx <= Len(rows)
    /\ ~RowInvalid(rows[rowIdx])
    /\ ~MkdirBlocked(RowFolder(rows[rowIdx]))
    /\ IntRaises(rows[rowIdx].numbers)
    /\ fsDirs' = MkdirDirs(RowFolder(rows[rowIdx]))
    /\ ret' = BatchReturn(Message("csv_error"))
    /\ pc' = "idle"
    /\ UNCHANGED << fsFiles, caller, ops, pipeArgs, pipeLocals, pipeObs, result,
                    batchVars, todo >>

\* lines 188-197: the folder is made and the pipeline is called
BatchRowSearch ==
    /\ pc = "batch_row"
    /\ rowIdx <= Len(rows)
    /\ ~RowInvalid(rows[rowIdx])
    /\ ~MkdirBlocked(RowFolder(rows[rowIdx]))
    /\ ~IntRaises(rows[rowIdx].numbers)
    /\ fsDirs' = MkdirDirs(RowFolder(rows[rowIdx]))
    /\ EnterPipeline(RowKeyword(rows[rowIdx]), IntOf(rows[rowIdx].numbers),
                     RowFolder(rows[rowIdx]), "batch")
    /\ UNCHANGED << fsFiles, ops, batchVars, todo, ret >>

\* lines 201-203
BatchDone ==
    /\ pc = "batch_row"
    /\ rowIdx > Len(rows)
    /\ ret' = BatchReturn(Join(statuses))
    /\ pc' = "idle"
    /\ UNCHANGED << fsVars, caller, ops, pipeArgs, pipeLocals, pipeObs, result,
                    batchVars, todo >>

(* ------------------------- clear_downloaded_images --------------------- *)
Children(dir) == { p \in fsDirs \cup fsFiles : Len(p) = Len(dir) + 1 /\ SubSeq(p, 1, Len(dir)) = dir }

ClearReturn(kind) == [op |-> "clear", raised |-> FALSE, images |-> << >>, text |-> Message(kind)]

\* line 116: Path(DOWNLOAD_FOLDER).glob("*")
ClearStart ==
    /\ pc = "idle"
    /\ ops' = ops + 1
    /\ todo' = Children(<< >>)
    /\ pc' = "clear"
    /\ ret' = NoReturn
    /\ NoPipeline
    /\ NoBatch
    /\ UNCHANGED fsVars

\* lines 122-124
ClearFile(entry) ==
    /\ pc = "clear"
    /\ entry \in todo \cap fsFiles
    /\ fsFiles' = fsFiles \ {entry}
    /\ todo' = todo \ {entry}
    /\ UNCHANGED << fsDirs, pc, caller, ops, pipeArgs, pipeLocals, pipeObs, result,
                    batchVars, ret >>

\* lines 117-121: a folder that holds files only
ClearDir(entry) ==
    /\ pc = "clear"
    /\ entry \in todo \cap fsDirs
    /\ Children(entry) \subseteq fsFiles
    /\ fsFiles' = fsFiles \ Children(entry)
    /\ fsDirs' = fsDirs \ {entry}
    /\ todo' = todo \ {entry}
    /\ UNCHANGED << pc, caller, ops, pipeArgs, pipeLocals, pipeObs, result,
                    batchVars, ret >>

\* lines 118-119: the folder holds a folder, unlink raises on it; the files the
\* glob gave before it are gone; lines 128-131
ClearDirFails(entry, gone) ==
    /\ pc = "clear"
    /\ entry \in todo \cap fsDirs
    /\ Children(entry) \cap fsDirs # {}
    /\ gone \subseteq Children(entry) \cap fsFiles
    /\ fsFiles' = fsFiles \ gone
    /\ todo' = {}
    /\ ret' = ClearReturn("clear_failed")
    /\ pc' = "idle"
    /\ UNCHANGED << fsDirs, caller, ops, pipeArgs, pipeLocals, pipeObs, result,
                    batchVars >>

\* lines 125-127
ClearDone ==
    /\ pc = "clear"
    /\ todo = {}
    /\ ret' = ClearReturn("cleared")
    /\ pc' = "idle"
    /\ UNCHANGED << fsVars, caller, ops, pipeArgs, pipeLocals, pipeObs, result,
                    batchVars, todo >>

(* --------------------------- specifications ---------------------------- *)
\* one call of download_images_single on the fresh download folder
FirstCall(q, n) ==
    /\ ops = 0
    /\ \/ SingleCall(q, n)
       \/ SingleMkdirFails(q, n)
       \/ SingleIntFails(q, n)

Next ==
    \/ \E n \in SingleCounts : FirstCall(<< "c", "+" >>, n)
    \/ SearchRequestFails
    \/ SearchEmptyPage
    \/ \E page \in Pages : SearchPage(page)
    \/ DownloadRequestFails
    \/ \E created \in BOOLEAN : DownloadWriteFails(created)
    \/ DownloadOk
    \/ Finish

Spec == Init /\ [][Next]_vars

\* the cells pandas can deliver: text, or NaN for an empty cell
KeywordCells == { Text(<< "c" >>), Text(<< " " >>), NaN }
CategoryCells == { Text(<< "k", "/" >>), Text(<< " " >>) }
NumberCells == { Num(1), Num(0), NaN, Text(<< "x" >>) }

\* a column that holds a non-numeric cell holds numbers as text too
Deliverable(table) ==
    \A i, j \in 1..Len(table) :
        table[i].numbers.t = "str" => table[j].numbers.t # "num"

Tables ==
    { table \in SeqsUpTo([keyword : KeywordCells, numbers : NumberCells,
                          category : CategoryCells], MaxRows) : Deliverable(table) }

Headers == { {"Keyword", "NUMBERS", "category"}, {"keyword", "numbers"} }

\* the pages of the search API in the whole-program specification
OneEntryPages == { << e >> : e \in Entries }

\* any public operation, while fewer than MaxOps were started
Operation ==
    /\ ops < MaxOps
    /\ \/ \E q \in Queries, n \in { Num(1), NoneValue } :
             SingleCall(q, n) \/ SingleMkdirFails(q, n) \/ SingleIntFails(q, n)
       \/ BatchNoFile
       \/ BatchReadFails
       \/ \E columns \in Headers : BatchMissingColumns(columns)
       \/ \E columns \in Headers, table \in Tables : BatchStart(columns, table)
       \/ ClearStart

NextSystem ==
    \/ Operation
    \/ SearchRequestFails
    \/ SearchEmptyPage
    \/ \E page \in OneEntryPages : SearchPage(page)
    \/ DownloadRequestFails
    \/ \E created \in BOOLEAN : DownloadWriteFails(created)
    \/ DownloadOk
    \/ Finish
    \/ BatchRowSkipped
    \/ BatchRowIntFails
    \/ BatchRowSearch
    \/ BatchRowMkdirFails
    \/ BatchDone
    \/ \E entry \in fsDirs \cup fsFiles : ClearFile(entry)
    \/ \E entry \in fsDirs \cup fsFiles : ClearDir(entry)
    \/ \E entry \in fsDirs \cup fsFiles, gone \in SUBSET fsFiles : ClearDirFails(entry, gone)
    \/ ClearDone

SpecSystem == Init /\ [][NextSystem]_vars

(* ------------------------------- claims -------------------------------- *)
Min(a, b) == IF a < b THEN a ELSE b

RECURSIVE Flatten(_)
Flatten(pages) == IF pages = << >> THEN << >> ELSE Head(pages) \o Flatten(Tail(pages))

HasUrl(e) == e.original # Absent \/ e.image # Absent

\* the entries with a URL in the first k pages the API answered with
UrlBearing(k) == SelectSeq(Flatten(Take(pagesSeen, k)), HasUrl)

\* a search request got no page: it raised
SearchFailed == Len(requests) > Len(pagesSeen)

\* the pagination phase is over and no request failed
SearchCompleted ==
    /\ 0 < num_images
    /\ ~SearchFailed
    /\ pc = "download" \/ result.returned

\* the download phase is over
DownloadsOver == ~SearchFailed /\ result.returned

Successes == { i \in 1..Len(log) : log[i] = "info" }

\* C1: for a positive target count, when every search request succeeds, the
\* candidate list has min(target count, URL-bearing entries before the first
\* empty page) entries, in page order, and the k-th request carries ijn = k - 1,
\* ijn growing by one per page of entries fetched.
C1_CandidateList ==
    /\ requests = [k \in 1..Len(requests) |-> k - 1]
    /\ SearchCompleted =>
        LET available == UrlBearing(Len(pagesSeen))
        IN  /\ Len(image_urls) = Min(num_images, Len(available))
            /\ \A i \in 1..Len(image_urls) :
                  /\ image_urls[i] # Absent
                  /\ image_urls[i] \in { available[i].original, available[i].image }
            /\ ijn = Cardinality({ k \in 1..Len(pagesSeen) : pagesSeen[k] # << >> })

C1_Witness ==
    /\ pc = "download"
    /\ Len(requests) = 2
    /\ Len(UrlBearing(2)) > num_images
    /\ Len(image_urls) = num_images
    /\ \E k \in 1..2 : \E i \in 1..Len(pagesSeen[k]) : pagesSeen[k][i].original = Absent

C3_SearchFailureAborts ==
    SearchFailed =>
        /\ result = Returned(<< >>, Status("error", query, 0))
        /\ result.status.kind \notin {"downloaded", "none"}
        /\ attempts = << >>
        /\ fsFiles = {}
        /\ pc = "idle"
        /\ ret = [op |-> "single", raised |-> FALSE, images |-> << >>,
                  text |-> << Status("error", query, 0) >>]

C3_Witness ==
    /\ SearchFailed
    /\ Len(requests) = 2
    /\ image_urls # << >>
    /\ result.returned

\* C8: when the search ends without error, the returned list holds one path
\* per successful download and none for a failed one, is no longer than the
\* target count, the status counts the successful downloads, and with no
\* successful download the status is the "No images were downloaded" one with
\* an empty list.
C8_ResultReflectsDownloads ==
    DownloadsOver =>
        /\ Len(result.images) = Cardinality(Successes)
        /\ Len(result.images) <= num_images
        /\ LET returned == { result.images[k] : k \in 1..Len(result.images) }
           IN  \A i \in 1..Len(log) :
                  FilePath(save_folder, i - 1, image_urls[i]) \in returned
                    <=> log[i] = "info"
        /\ \A k \in 1..Len(result.images) : result.images[k] \in fsFiles
        /\ IF Successes = {}
           THEN result = Returned(<< >>, Status("none", query, 0))
           ELSE result.status = Status("downloaded", query, Cardinality(Successes))

C8_Witness ==
    /\ DownloadsOver
    /\ Len(log) = 2
    /\ Cardinality(Successes) = 1
    /\ result.status = Status("downloaded", query, 1)

\* the extension as the claim derives it: the query string goes first, then the
\* text after the last dot of the trailing path segment
ClaimedExtension(url) ==
    LET noQuery == Split(url, "?")[1]
        segments == Split(noQuery, "/")
        parts == Split(segments[Len(segments)], ".")
        ext == IF Len(parts) = 1 THEN << >> ELSE parts[Len(parts)]
    IN  IF ext = << >> \/ Len(ext) > 4 \/ ~IsAlnum(ext) THEN << "j", "p", "g" >> ELSE ext

\* C9: the file of the i-th candidate is written as
\* destination_folder/image_{i}.{extension}, the extension taken from the
\* trailing path segment with the query string stripped first.
C9_ExtensionFromPath ==
    \A i \in Successes :
        downloaded_images[Cardinality({ j \in Successes : j <= i })]
          = PathJoin(save_folder,
                     << "i", "m", "a", "g", "e", "_" >> \o Str(i) \o << "." >>
                        \o ClaimedExtension(attempts[i]))

\* C10: no request follows an empty page, none is sent once the accumulator
\* holds the target count (the pages before the last request held fewer URLs
\* than the target, so the pages before every earlier request did), the loop
\* ends only for one of these two reasons, and a page whose entries carry no
\* URL adds nothing and does not end it.
C10_PaginationStops ==
    0 < num_images =>
        /\ requests # << >> =>
              /\ Len(pagesSeen) >= Len(requests) - 1
              /\ Len(UrlBearing(Len(requests) - 1)) < num_images
              /\ \A j \in 1..(Len(requests) - 1) : pagesSeen[j] # << >>
        /\ pc = "search" => Len(image_urls) < num_images
        /\ pc = "search" => Len(image_urls) = Len(UrlBearing(Len(pagesSeen)))
        /\ SearchCompleted =>
              \/ pagesSeen[Len(pagesSeen)] = << >>
              \/ Len(image_urls) = num_images

C10_Witness ==
    /\ pc = "download"
    /\ Len(pagesSeen) = 3
    /\ pagesSeen[1] # << >>
    /\ Len(UrlBearing(1)) = 0
    /\ Len(UrlBearing(2)) = 1
    /\ pagesSeen[3] = << >>
    /\ Len(image_urls) < num_images

\* download_images_batch got past the column check and its loop ran
BatchRan == ret.op = "batch" /\ pc = "idle" /\ 1 <= rowIdx

IsLine(status) == status # NewLine

\* the status of row i: a skip status, or what the pipeline said of its keyword
StatusOfRow(status, i) ==
    \/ status = Status("skipped", << >>, i)
    \/ /\ status.kind \in {"downloaded", "none", "error"}
       /\ status.query = RowKeyword(rows[i])

\* C4: for a table with the three columns, the batch returns one status per
\* row, in input order, whatever failed while a row was handled.
C4_OneStatusPerRow ==
    BatchRan =>
        /\ Len(SelectSeq(ret.text, IsLine)) = Len(rows)
        /\ \A i \in 1..Len(rows) : StatusOfRow(SelectSeq(ret.text, IsLine)[i], i)

\* C5: a clear that has returned has removed every file and folder under the
\* root and says "Download folder cleared."
C5_ClearEmptiesRoot ==
    (ret.op = "clear" /\ pc = "idle") =>
        /\ ret.text = Message("cleared")
        /\ fsDirs = { << >> }
        /\ fsFiles = {}

\* C6: no public operation lets an error escape.
C6_NothingEscapes == ~ret.raised

\* a cell the table left empty or blank
EmptyCell(cell) == cell.t = "nan" \/ Strip(cell.s) = << >>

\* the row as the claim judges it
ClaimInvalid(row) ==
    \/ EmptyCell(row.keyword)
    \/ EmptyCell(row.category)
    \/ row.numbers.t # "num"
    \/ row.numbers.tenths <= 0

\* row i was handled, or the pipeline runs for it
TakenUp(i) == i < rowIdx \/ (i = rowIdx /\ pc \in {"search", "download"})

\* the batch ended while row i was handled
EndedAt(i) == i = rowIdx /\ pc = "idle"

\* C7: a row with an empty keyword, an empty category or a count that is no
\* positive number gets a skip status, no folder and no call of the pipeline;
\* any other row gets one call of the pipeline on root/category/keyword.
C7_InvalidRowsSkipped ==
    1 <= rowIdx =>
        \A i \in 1..Len(rows) :
            /\ (TakenUp(i) /\ ClaimInvalid(rows[i])) =>
                  /\ i <= Len(statuses)
                  /\ statuses[i] = Status("skipped", << >>, i)
            /\ (EndedAt(i) /\ ClaimInvalid(rows[i])) => RowFolder(rows[i]) \notin fsDirs
            /\ (i <= Len(statuses) /\ ~ClaimInvalid(rows[i])) =>
                  /\ statuses[i].kind \in {"downloaded", "none", "error"}
                  /\ RowFolder(rows[i]) \in fsDirs

====
